---- MODULE Spec2Model ----
(***************************************************************************)
(* A model of the sampling core of PyMLViz:                                *)
(*   RejectionSampling   notebooks/Sampling_Rejection.ipynb                *)
(*   integrate_H, HMC    notebooks/Sampling_HMC.ipynb                      *)
(*   ImportanceSampling, ess   (importance sampling notebook)              *)
(* Floating point values are modelled as records: a finite value carries   *)
(* an integer, the non-finite values NaN, +inf and -inf are kept apart and *)
(* compared the way IEEE 754 compares them.                                *)
(***************************************************************************)
EXTENDS Integers, Sequences, FiniteSets, TLC

\* ------------------------------------------------------------------ bounds
\* tries is counted up to MaxTries: no call is started and no further
\* iteration is entered once the counter has reached it.
MaxTries == 3
\* finite density values range over 0..MaxDensity
MaxDensity == 2

\* ------------------------------------------------------------ float values
Fin(n) == [kind |-> "fin", val |-> n]
NaN == [kind |-> "nan", val |-> 0]
PosInf == [kind |-> "inf", val |-> 1]
NegInf == [kind |-> "inf", val |-> -1]
NonFinite == {NaN, PosInf, NegInf}
IsFinite(a) == a.kind = "fin"

\* a < b on floats: false as soon as one side is NaN
Lt(a, b) ==
    IF a.kind = "nan" \/ b.kind = "nan" THEN FALSE
    ELSE IF a.kind = "fin" /\ b.kind = "fin" THEN a.val < b.val
    ELSE IF a.kind = "inf" /\ b.kind = "inf" THEN a.val < b.val
    ELSE IF a.kind = "inf" THEN a.val < 0
    ELSE b.val > 0

\* k * a for an integer k > 0 and a float a
Scale(k, a) == IF a.kind = "fin" THEN Fin(k * a.val) ELSE a

\* ------------------------------------------------------ rejection sampling
\* the points the proposal q can produce (q.rvs())
XPoints == {<<0, 0>>, <<1, 0>>}
\* the values a density takes: finite ones at every point, and at the point
\* <<1, 0>> also the non-finite ones
FiniteValues == {Fin(n) : n \in 0..MaxDensity}
Densities ==
    {f \in [XPoints -> FiniteValues \cup NonFinite] : IsFinite(f[<<0, 0>>])}
\* the scale constants c
CValues == {1, 2}

VARIABLES
    p_tab,          \* self.p      : the target density, a table over XPoints
    q_pdf,          \* self.q.pdf  : the proposal density, a table over XPoints
    c,              \* self.c
    tries,          \* self.tries
    samples,        \* self.samples
    last_approved,  \* self.last_approved
    last_accepted,  \* the point of the last draw that passed u < self.p(x),
                    \* in sample or in sample_all ([0,0] before the first)
    rs_pc,          \* position of the caller inside sample / sample_all
    rx,             \* local x of the running call
    ru,             \* local u of the running call
    rs_ret,         \* what the last finished call returned
    str_out,        \* the numbers the last __str__ call formatted
    tries0,         \* tries when the running call started
    samples0,       \* samples when the running call started
    iters           \* loop iterations the running call has entered

rs_vars == <<p_tab, q_pdf, c, tries, samples, last_approved, last_accepted,
             rs_pc, rx, ru,
             rs_ret, str_out, tries0, samples0, iters>>


\* ---------------------------------------------------- importance sampling
VARIABLES
    log_p,          \* self.log_p    : log target density, a table over XPoints
    q_logpdf,       \* self.q.logpdf : log proposal density, a table over XPoints
    is_ret,         \* what the last ImportanceSampling.sample() call returned
    is_evals,       \* the calls of q.rvs, log_p and q.logpdf that call made
    weighted,       \* the caller's list of weighted samples [x, w]
    ess_arg,        \* the list the last ess call was given
    ess_out         \* what the last ess call returned

is_vars == <<log_p, q_logpdf, is_ret, is_evals, weighted, ess_arg, ess_out>>

\* ------------------------------------------- integrate_H, called on its own
VARIABLES
    lf_heap,        \* the arrays of this caller
    lf_dE,          \* the gradient function passed as dE_dx
    lf_Tau,         \* the number of steps asked for
    lf_dt,          \* the step size
    lf_pc,          \* how far the caller has got
    lf_fwd,         \* what the forward call returned
    lf_neg,         \* the array holding the negated momentum
    lf_bwd          \* what the backward call returned

lf_vars == <<lf_heap, lf_dE, lf_Tau, lf_dt, lf_pc, lf_fwd, lf_neg, lf_bwd>>

\* -------------------------------------------------------- other instances
\* Next to the samplers that are driven there is a second RejectionSampling
\* instance and a second HMC instance; the second HMC instance was
\* constructed from the array x the first one was constructed from.
VARIABLES
    other_rs,       \* the fields tries, samples, last_approved of the second
                    \* RejectionSampling instance
    other_hmc_x     \* self.x of the second HMC instance (an array)

inst_vars == <<other_rs, other_hmc_x>>

\* ------------------------------------- two callers of one RejectionSampling
\* Two threads call sample() on the instance above.  Each thread has its own
\* frame; self.tries += 1 and self.samples += 1 are a read of the attribute
\* into the frame followed by a write of the incremented value.
VARIABLES
    t_pc,           \* position of each thread inside sample
    t_x,            \* local x of each thread
    t_u,            \* local u of each thread
    t_reg,          \* the counter value each thread has read
    t_iters,        \* loop iterations entered, all threads together
    t_accepted,     \* draws that passed the test, all threads together
    t_overlap       \* a call was started while the other thread was in one

th_vars == <<t_pc, t_x, t_u, t_reg, t_iters, t_accepted, t_overlap>>

\* ------------------------------------------------------------ HMC sampler
\* Positions and momenta are one-dimensional arrays holding an even integer.
\* Arrays live on a heap: an array is named by its index in heap, so that
\* two names of one array (self.x = x, x,p = xp) can be told from a copy.
\* The energy is E(x) = x^2 with the analytic gradient 2x; the step sizes
\* dtau and dt are the float 1.
MaxCalls == 3
MaxDemoSteps == 2
MaxLogU == 3
dtau == 1
demo_dt == 1
TauValues == {0, 1, 2}
X0Values == {0, 2}
\* np.random.normal(size=x.shape)
MomentumValues == {-2, 0, 2}
\* np.log(np.random.uniform()): the logarithm of a value of [0, 1), -inf for 0
LogUValues == {NegInf} \cup {Fin(-k) : k \in 1..MaxLogU}

VARIABLES
    heap,             \* the arrays: heap[i] is the content of array i
    integrate_H_def,  \* the cell the name integrate_H is bound to: 1 or 2
    hmc_x,            \* self.x (an array)
    Tau,              \* self.Tau
    hmc_pc,           \* position of the caller inside HMC.sample
    hx,               \* sample: local x (an array)
    hp,               \* sample: local p (an array)
    hH,               \* sample: local H
    hxnew,            \* sample: local xnew (an array)
    hpnew,            \* sample: local pnew (an array)
    hHnew,            \* sample: local Hnew
    hlogu,            \* sample: np.log(np.random.uniform())
    hmc_out,          \* the points the caller holds, each with the value it had
                      \* when handed over: x0 first, then every returned sample
    hmc_err,          \* the exception the last sample() call ended with
    x_before,         \* value of the position when the running call started
    p_drawn,          \* value of the momentum drawn by the running call
    ncalls,           \* number of sample() calls started
    traj_euler,       \* demonstration: list of (x, p) with their values
    traj_leap_frog,   \* demonstration: list of (x, p) with their values
    demo_err          \* the exception the demonstration loop ended with

hmc_vars == <<heap, integrate_H_def, hmc_x, Tau, hmc_pc, hx, hp, hH, hxnew, hpnew,
              hHnew, hlogu, hmc_out, hmc_err, x_before, p_drawn, ncalls,
              traj_euler, traj_leap_frog, demo_err>>

\* The width of the mantissa of a float.  Values are integers; an integer
\* that needs more than MantBits significant bits is not a float.
MantBits == 4

\* the weight of the last mantissa bit of a float of magnitude a
RECURSIVE Ulp(_)
Ulp(a) == IF a < 2 ^ MantBits THEN 1 ELSE 2 * Ulp(a \div 2)

Abs(v) == IF v < 0 THEN -v ELSE v
Sign(v) == IF v < 0 THEN -1 ELSE 1

\* the multiple of u nearest to a, the even one when two are as near
Round(a, u) ==
    IF 2 * (a % u) > u \/ (2 * (a % u) = u /\ (a \div u) % 2 = 1)
    THEN (a \div u + 1) * u
    ELSE (a \div u) * u

\* the float an arithmetic operation returns when its exact result is v:
\* the nearest float, the one with the even mantissa when two are as near
Fl(v) == Sign(v) * Round(Abs(v), Ulp(Abs(v)))

E(x) == x * x
dE_dx(x) == 2 * x

\* a second energy, E(x) = 2|x|, and its gradient
dEabs_dx(x) == IF x > 0 THEN 2 ELSE IF x < 0 THEN -2 ELSE 0

\* the functions a caller passes as dE_dx, and the call dE_dx(x)
GradFns == {"dE_dx", "dEabs_dx"}
Grad(f, x) == IF f = "dE_dx" THEN Fl(dE_dx(x)) ELSE dEabs_dx(x)

\* HMC._H
H_(x, p) == E(x) + (p * p) \div 2

\* One pass of the body of "while (t < T)" on the values x, p.  The third
\* component tells whether every operation of the pass was exact.
EulerStep(x, p, dE, dt) ==
    LET gradE == Grad(dE, x)
        x1 == Fl(x + Fl(p * dt))
        p1 == Fl(p - Fl(gradE * dt))
    IN  <<x1, p1, x1 = x + p * dt /\ p1 = p - gradE * dt>>

\* a variant of LeapFrogStep that makes an Euler step
LeapFrogStep_euler(x, p, dE, dt) ==
    LET gradE == Grad(dE, x)
        x1 == Fl(x + Fl(p * dt))
        p1 == Fl(p - Fl(gradE * dt))
    IN  <<x1, p1, x1 = x + p * dt /\ p1 = p - gradE * dt>>

\* a variant of LeapFrogStep whose second half step uses the gradient at the
\* old position
LeapFrogStep_oldgrad(x, p, dE, dt) ==
    LET h1 == Fl(Grad(dE, x) * dt) \div 2
        p1 == Fl(p - h1)
        x1 == Fl(x + Fl(p1 * dt))
        p2 == Fl(p1 - h1)
    IN  <<x1, p2,
          /\ 2 * h1 = Grad(dE, x) * dt
          /\ p1 = p - h1
          /\ x1 = x + p1 * dt
          /\ p2 = p1 - h1>>

LeapFrogStep(x, p, dE, dt) ==
    LET h1 == Fl(Grad(dE, x) * dt) \div 2
        p1 == Fl(p - h1)
        x1 == Fl(x + Fl(p1 * dt))
        h2 == Fl(Grad(dE, x1) * dt) \div 2
        p2 == Fl(p1 - h2)
    IN  <<x1, p2,
          /\ 2 * h1 = Grad(dE, x) * dt
          /\ p1 = p - h1
          /\ x1 = x + p1 * dt
          /\ 2 * h2 = Grad(dE, x1) * dt
          /\ p2 = p1 - h2>>

\* t = 0; while (t < T): t += dt; <step>
\* n counts the passes made so far and exact tells whether all of them were
\* exact; the result is <<x, p, passes made, every pass exact>>.
RECURSIVE IntegrateLoop(_, _, _, _, _, _, _, _, _)
IntegrateLoop(x, p, dE, t, T, dt, method, n, exact) ==
    IF t < T
    THEN LET s == IF method = "euler" THEN EulerStep(x, p, dE, dt)
                  ELSE LeapFrogStep(x, p, dE, dt)
         IN  IntegrateLoop(s[1], s[2], dE, Fl(t + dt), T, dt, method, n + 1,
                           exact /\ s[3])
    ELSE <<x, p, n, exact>>

\* integrate_H, first cell: x,p = xp names the caller's arrays and the
\* updates x += ..., p += ... are made in them; a method other than 'euler'
\* reaches error(...), a name that is not defined (NameError).
integrate_H_1(h, xid, pid, dE, T, dt, method) ==
    IF 0 < T /\ method # "euler"
    THEN [heap |-> h, x |-> xid, p |-> pid, err |-> "NameError",
          n |-> 1, exact |-> TRUE]
    ELSE LET r == IntegrateLoop(h[xid], h[pid], dE, 0, T, dt, method, 0, TRUE)
         IN  [heap |-> [h EXCEPT ![xid] = r[1], ![pid] = r[2]],
              x |-> xid, p |-> pid, err |-> "none", n |-> r[3], exact |-> r[4]]

\* a variant of integrate_H_2 without np.copy
integrate_H_2_nocopy(h, xid, pid, dE, T, dt, method) ==
    LET r == IntegrateLoop(h[xid], h[pid], dE, 0, T, dt, method, 0, TRUE)
    IN  [heap |-> [h EXCEPT ![xid] = r[1], ![pid] = r[2]],
         x |-> xid, p |-> pid, err |-> "none", n |-> r[3], exact |-> r[4]]

\* integrate_H, second cell: x,p = np.copy(xp) are the rows of a new array
integrate_H_2(h, xid, pid, dE, T, dt, method) ==
    LET r == IntegrateLoop(h[xid], h[pid], dE, 0, T, dt, method, 0, TRUE)
    IN  [heap |-> h \o <<r[1], r[2]>>,
         x |-> Len(h) + 1, p |-> Len(h) + 2, err |-> "none",
         n |-> r[3], exact |-> r[4]]

\* the call integrate_H(...), resolved when it is made
integrate_H(h, xid, pid, dE, T, dt, method) ==
    IF integrate_H_def = 1
    THEN integrate_H_1(h, xid, pid, dE, T, dt, method)
    ELSE integrate_H_2(h, xid, pid, dE, T, dt, method)

\* The cell of the first integrate_H has run; the caller holds the arrays
\* x (array 1, handed to HMC), x0 and p0 (arrays 2 and 3, the demonstration).
HMCInit ==
    /\ \E x0 \in X0Values : heap = <<x0, 2, 2>>
    /\ integrate_H_def = 1
    /\ hmc_x = 1
    /\ Tau \in TauValues
    /\ hmc_pc = "idle"
    /\ hx = 1
    /\ hp = 1
    /\ hH = 0
    /\ hxnew = 1
    /\ hpnew = 1
    /\ hHnew = 0
    /\ hlogu = NegInf
    /\ hmc_out = <<[x |-> 1, val |-> heap[1]]>>
    /\ hmc_err = "none"
    /\ x_before = heap[1]
    /\ p_drawn = 0
    /\ ncalls = 0
    /\ traj_euler = <<[x |-> 2, p |-> 3, xval |-> 2, pval |-> 2]>>
    /\ traj_leap_frog = <<[x |-> 2, p |-> 3, xval |-> 2, pval |-> 2]>>
    /\ demo_err = "none"

\* the cell of the second integrate_H runs
DefineIntegrateH2 ==
    /\ integrate_H_def = 1
    /\ hmc_pc = "idle"
    /\ integrate_H_def' = 2
    /\ UNCHANGED <<heap, hmc_x, Tau, hmc_pc, hx, hp, hH, hxnew, hpnew, hHnew,
                   hlogu, hmc_out, hmc_err, x_before, p_drawn, ncalls,
                   traj_euler, traj_leap_frog, demo_err>>
    /\ UNCHANGED <<rs_vars, is_vars, lf_vars, inst_vars, th_vars>>

\* sample: x = self.x; p = np.random.normal(size=x.shape); H = self._H(x, p)
H_Begin ==
    /\ hmc_pc = "idle"
    /\ ncalls < MaxCalls
    /\ ncalls' = ncalls + 1
    /\ \E pv \in MomentumValues :
         /\ heap' = Append(heap, pv)
         /\ p_drawn' = pv
         /\ hH' = H_(heap[hmc_x], pv)
    /\ hx' = hmc_x
    /\ hp' = Len(heap) + 1
    /\ x_before' = heap[hmc_x]
    /\ hmc_err' = "none"
    /\ hmc_pc' = "integrate"
    /\ UNCHANGED <<integrate_H_def, hmc_x, Tau, hxnew, hpnew, hHnew, hlogu,
                   hmc_out, traj_euler, traj_leap_frog, demo_err>>
    /\ UNCHANGED <<rs_vars, is_vars, lf_vars, inst_vars, th_vars>>

\* sample: xnew, pnew = integrate_H((x,p), self.dE_dx, self.Tau*self.dtau,
\*                                  self.dtau, 'leap_frog')
\*         Hnew = self._H(xnew, pnew)
H_Integrate ==
    /\ hmc_pc = "integrate"
    /\ LET r == integrate_H(heap, hx, hp, "dE_dx", Fl(Tau * dtau), dtau,
                            "leap_frog")
       IN  IF r.err # "none"
           THEN /\ hmc_err' = r.err
                /\ hmc_pc' = "idle"
                /\ UNCHANGED <<heap, hxnew, hpnew, hHnew>>
           ELSE /\ heap' = r.heap
                /\ hxnew' = r.x
                /\ hpnew' = r.p
                /\ hHnew' = H_(r.heap[r.x], r.heap[r.p])
                /\ hmc_pc' = "metropolis"
                /\ UNCHANGED hmc_err
    /\ UNCHANGED <<integrate_H_def, hmc_x, Tau, hx, hp, hH, hlogu, hmc_out,
                   x_before, p_drawn, ncalls, traj_euler, traj_leap_frog,
                   demo_err>>
    /\ UNCHANGED <<rs_vars, is_vars, lf_vars, inst_vars, th_vars>>

\* a variant of H_Metropolis that accepts on log(u) <= H - Hnew
H_Metropolis_le ==
    /\ hmc_pc = "metropolis"
    /\ \E lu \in LogUValues :
         /\ hlogu' = lu
         /\ hmc_x' = IF ~Lt(Fin(hH - hHnew), lu) THEN hxnew ELSE hmc_x
    /\ hmc_pc' = "return"
    /\ UNCHANGED <<heap, integrate_H_def, Tau, hx, hp, hH, hxnew, hpnew, hHnew,
                   hmc_out, hmc_err, x_before, p_drawn, ncalls, traj_euler,
                   traj_leap_frog, demo_err>>
    /\ UNCHANGED <<rs_vars, is_vars, lf_vars, inst_vars, th_vars>>

\* a variant of H_Metropolis that stores the new position in the array
\* self.x names (self.x[:] = xnew)
H_Metropolis_inplace ==
    /\ hmc_pc = "metropolis"
    /\ \E lu \in LogUValues :
         /\ hlogu' = lu
         /\ heap' = IF Lt(lu, Fin(hH - hHnew))
                    THEN [heap EXCEPT ![hmc_x] = heap[hxnew]] ELSE heap
    /\ hmc_pc' = "return"
    /\ UNCHANGED <<hmc_x, integrate_H_def, Tau, hx, hp, hH, hxnew, hpnew, hHnew,
                   hmc_out, hmc_err, x_before, p_drawn, ncalls, traj_euler,
                   traj_leap_frog, demo_err>>
    /\ UNCHANGED <<rs_vars, is_vars, lf_vars, inst_vars, th_vars>>

\* a variant of H_Metropolis that rejects when the uniform draw is 0
H_Metropolis_nozero ==
    /\ hmc_pc = "metropolis"
    /\ \E lu \in LogUValues :
         /\ hlogu' = lu
         /\ hmc_x' = IF lu # NegInf /\ Lt(lu, Fin(hH - hHnew)) THEN hxnew
                     ELSE hmc_x
    /\ hmc_pc' = "return"
    /\ UNCHANGED <<heap, integrate_H_def, Tau, hx, hp, hH, hxnew, hpnew, hHnew,
                   hmc_out, hmc_err, x_before, p_drawn, ncalls, traj_euler,
                   traj_leap_frog, demo_err>>
    /\ UNCHANGED <<rs_vars, is_vars, lf_vars, inst_vars, th_vars>>

\* sample: if np.log(np.random.uniform()) < H - Hnew: self.x = xnew
H_Metropolis ==
    /\ hmc_pc = "metropolis"
    /\ \E lu \in LogUValues :
         /\ hlogu' = lu
         /\ hmc_x' = IF Lt(lu, Fin(hH - hHnew)) THEN hxnew ELSE hmc_x
    /\ hmc_pc' = "return"
    /\ UNCHANGED <<heap, integrate_H_def, Tau, hx, hp, hH, hxnew, hpnew, hHnew,
                   hmc_out, hmc_err, x_before, p_drawn, ncalls, traj_euler,
                   traj_leap_frog, demo_err>>
    /\ UNCHANGED <<rs_vars, is_vars, lf_vars, inst_vars, th_vars>>

\* sample: return self.x
H_Return ==
    /\ hmc_pc = "return"
    /\ hmc_out' = Append(hmc_out, [x |-> hmc_x, val |-> heap[hmc_x]])
    /\ hmc_pc' = "idle"
    /\ UNCHANGED <<heap, integrate_H_def, hmc_x, Tau, hx, hp, hH, hxnew,
                   hpnew, hHnew, hlogu, hmc_err, x_before, p_drawn, ncalls,
                   traj_euler, traj_leap_frog, demo_err>>
    /\ UNCHANGED <<rs_vars, is_vars, lf_vars, inst_vars, th_vars>>

\* one pass of the demonstration loop:
\*   traj_euler.append(integrate_H(traj_euler[-1], dE2d_dx, dt, dt, 'euler'))
\*   traj_leap_frog.append(integrate_H(traj_leap_frog[-1], dE2d_dx, dt, dt,
\*                                     'leap_frog'))
DemoStep ==
    /\ demo_err = "none"
    /\ hmc_pc = "idle"
    /\ Len(traj_euler) <= MaxDemoSteps
    /\ LET le == traj_euler[Len(traj_euler)]
           ll == traj_leap_frog[Len(traj_leap_frog)]
       IN  \E r1 \in {integrate_H(heap, le.x, le.p, "dE_dx", demo_dt, demo_dt,
                                  "euler")} :
           \E r2 \in {integrate_H(r1.heap, ll.x, ll.p, "dE_dx", demo_dt,
                                  demo_dt, "leap_frog")} :
             LET e1 == [x |-> r1.x, p |-> r1.p, xval |-> r1.heap[r1.x],
                        pval |-> r1.heap[r1.p]]
                 e2 == [x |-> r2.x, p |-> r2.p, xval |-> r2.heap[r2.x],
                        pval |-> r2.heap[r2.p]]
             IN  IF r1.err # "none"
                 THEN /\ demo_err' = r1.err
                      /\ UNCHANGED <<heap, traj_euler, traj_leap_frog>>
                 ELSE IF r2.err # "none"
                 THEN /\ demo_err' = r2.err
                      /\ heap' = r1.heap
                      /\ traj_euler' = Append(traj_euler, e1)
                      /\ UNCHANGED traj_leap_frog
                 ELSE /\ heap' = r2.heap
                      /\ traj_euler' = Append(traj_euler, e1)
                      /\ traj_leap_frog' = Append(traj_leap_frog, e2)
                      /\ UNCHANGED demo_err
    /\ UNCHANGED <<integrate_H_def, hmc_x, Tau, hmc_pc, hx, hp, hH, hxnew,
                   hpnew, hHnew, hlogu, hmc_out, hmc_err, x_before, p_drawn,
                   ncalls>>
    /\ UNCHANGED <<rs_vars, is_vars, lf_vars, inst_vars, th_vars>>

NextHMC ==
    \/ DefineIntegrateH2
    \/ H_Begin
    \/ H_Integrate
    \/ H_Metropolis
    \/ H_Return
    \/ DemoStep

vars == <<rs_vars, hmc_vars, is_vars, lf_vars, inst_vars, th_vars>>

\* ------------------------------------------ rejection sampling, operations
NoRet == [op |-> "none", fst |-> <<0, 0>>, snd |-> <<0, 0>>]

\* RejectionSampling.__init__(p, q, c)
RSInit ==
    /\ p_tab \in Densities
    /\ q_pdf \in Densities
    /\ c \in CValues
    /\ tries = 0
    /\ samples = 0
    /\ last_approved = <<0, 0>>
    /\ last_accepted = <<0, 0>>
    /\ rs_pc = "idle"
    /\ rx = <<0, 0>>
    /\ ru = Fin(0)
    /\ rs_ret = NoRet
    /\ str_out = <<0, 0>>
    /\ tries0 = 0
    /\ samples0 = 0
    /\ iters = 0

\* np.random.uniform(low=0, high=h): the values the call can return.  A
\* finite h > 0 gives a value of [0, h), cut here into the unit intervals
\* [k, k+1); h = 0 gives 0.  With a non-finite h the range high - low is not
\* finite and numpy raises OverflowError ('Range exceeds valid bounds').
Raise == [kind |-> "raise", val |-> 0]
Uniform0(h) ==
    IF h.kind = "fin"
    THEN IF h.val > 0 THEN {Fin(k) : k \in 0..(h.val - 1)} ELSE {Fin(0)}
    ELSE {Raise}

\* a variant of CallSample that starts every call with fresh counters
CallSample_reset ==
    /\ rs_pc = "idle"
    /\ tries < MaxTries
    /\ rs_pc' = "s_loop"
    /\ tries' = 0
    /\ samples' = 0
    /\ tries0' = 0
    /\ samples0' = 0
    /\ iters' = 0
    /\ UNCHANGED <<p_tab, q_pdf, c, last_accepted, last_approved, rx, ru,
                   rs_ret, str_out>>
    /\ UNCHANGED <<hmc_vars, is_vars, lf_vars, inst_vars, th_vars>>

\* the caller starts sample()
CallSample ==
    /\ rs_pc = "idle"
    /\ tries < MaxTries
    /\ rs_pc' = "s_loop"
    /\ tries0' = tries
    /\ samples0' = samples
    /\ iters' = 0
    /\ UNCHANGED <<p_tab, q_pdf, c, last_accepted, tries, samples,
                   last_approved, rx, ru, rs_ret, str_out>>
    /\ UNCHANGED <<hmc_vars, is_vars, lf_vars, inst_vars, th_vars>>

\* a variant of S_IncTries that leaves the counter alone
S_IncTries_missing ==
    /\ rs_pc = "s_loop"
    /\ tries < MaxTries
    /\ tries' = tries
    /\ iters' = iters + 1
    /\ rs_pc' = "s_drawx"
    /\ UNCHANGED <<p_tab, q_pdf, c, last_accepted, samples, last_approved, rx,
                   ru, rs_ret, str_out, tries0, samples0>>
    /\ UNCHANGED <<hmc_vars, is_vars, lf_vars, inst_vars, th_vars>>

\* sample: self.tries += 1
S_IncTries ==
    /\ rs_pc = "s_loop"
    /\ tries < MaxTries
    /\ tries' = tries + 1
    /\ iters' = iters + 1
    /\ rs_pc' = "s_drawx"
    /\ UNCHANGED <<p_tab, q_pdf, c, last_accepted, samples, last_approved, rx,
                   ru, rs_ret, str_out, tries0, samples0>>
    /\ UNCHANGED <<hmc_vars, is_vars, lf_vars, inst_vars, th_vars>>

\* sample: x = self.q.rvs()
S_DrawX ==
    /\ rs_pc = "s_drawx"
    /\ \E x \in XPoints : rx' = x
    /\ rs_pc' = "s_drawu"
    /\ UNCHANGED <<p_tab, q_pdf, c, last_accepted, tries, samples,
                   last_approved, ru, rs_ret, str_out, tries0, samples0,
                   iters>>
    /\ UNCHANGED <<hmc_vars, is_vars, lf_vars, inst_vars, th_vars>>

\* sample: u = np.random.uniform(low=0, high=self.c*self.q.pdf(x))
S_DrawU ==
    /\ rs_pc = "s_drawu"
    /\ \E u \in Uniform0(Scale(c, q_pdf[rx])) :
         IF u = Raise
         THEN /\ rs_pc' = "raised"
              /\ ru' = ru
         ELSE /\ rs_pc' = "s_test"
              /\ ru' = u
    /\ UNCHANGED <<p_tab, q_pdf, c, last_accepted, tries, samples,
                   last_approved, rx, rs_ret, str_out, tries0, samples0,
                   iters>>
    /\ UNCHANGED <<hmc_vars, is_vars, lf_vars, inst_vars, th_vars>>

\* a variant of S_Test that tests "not p(x) < u"
S_Test_notless ==
    /\ rs_pc = "s_test"
    /\ rs_pc' = IF ~Lt(p_tab[rx], ru) THEN "s_acc" ELSE "s_loop"
    /\ UNCHANGED <<p_tab, q_pdf, c, last_accepted, tries, samples,
                   last_approved, rx, ru, rs_ret, str_out, tries0, samples0,
                   iters>>
    /\ UNCHANGED <<hmc_vars, is_vars, lf_vars, inst_vars, th_vars>>

\* a variant of S_Test that gives up after the second rejected iteration
S_Test_capped ==
    /\ rs_pc = "s_test"
    /\ rs_pc' = IF Lt(ru, p_tab[rx]) THEN "s_acc"
                ELSE IF iters >= 2 THEN "idle" ELSE "s_loop"
    /\ UNCHANGED <<p_tab, q_pdf, c, last_accepted, tries, samples,
                   last_approved, rx, ru, rs_ret, str_out, tries0, samples0,
                   iters>>
    /\ UNCHANGED <<hmc_vars, is_vars, lf_vars, inst_vars, th_vars>>

\* a variant of S_Test that raises when the envelope is violated at x
S_Test_checked ==
    /\ rs_pc = "s_test"
    /\ rs_pc' = IF Lt(Scale(c, q_pdf[rx]), p_tab[rx]) THEN "raised"
                ELSE IF Lt(ru, p_tab[rx]) THEN "s_acc" ELSE "s_loop"
    /\ UNCHANGED <<p_tab, q_pdf, c, last_accepted, tries, samples,
                   last_approved, rx, ru, rs_ret, str_out, tries0, samples0,
                   iters>>
    /\ UNCHANGED <<hmc_vars, is_vars, lf_vars, inst_vars, th_vars>>

\* a variant of S_Test that tests u <= p(x)
S_Test_le ==
    /\ rs_pc = "s_test"
    /\ rs_pc' = IF Lt(ru, p_tab[rx]) \/ ru = p_tab[rx] THEN "s_acc" ELSE "s_loop"
    /\ UNCHANGED <<p_tab, q_pdf, c, last_accepted, tries, samples,
                   last_approved, rx, ru, rs_ret, str_out, tries0, samples0,
                   iters>>
    /\ UNCHANGED <<hmc_vars, is_vars, lf_vars, inst_vars, th_vars>>

\* sample: if u < self.p(x)
S_Test ==
    /\ rs_pc = "s_test"
    /\ rs_pc' = IF Lt(ru, p_tab[rx]) THEN "s_acc" ELSE "s_loop"
    /\ UNCHANGED <<p_tab, q_pdf, c, last_accepted, tries, samples,
                   last_approved, rx, ru, rs_ret, str_out, tries0, samples0,
                   iters>>
    /\ UNCHANGED <<hmc_vars, is_vars, lf_vars, inst_vars, th_vars>>

\* a variant of S_IncSamples that counts the accepted draw twice
S_IncSamples_twice ==
    /\ rs_pc = "s_acc"
    /\ samples' = samples + 2
    /\ last_accepted' = rx
    /\ rs_pc' = "s_ret"
    /\ UNCHANGED <<p_tab, q_pdf, c, tries, last_approved, rx, ru, rs_ret,
                   str_out, tries0, samples0, iters>>
    /\ UNCHANGED <<hmc_vars, is_vars, lf_vars, inst_vars, th_vars>>

\* sample: self.samples += 1
S_IncSamples ==
    /\ rs_pc = "s_acc"
    /\ samples' = samples + 1
    /\ last_accepted' = rx
    /\ rs_pc' = "s_ret"
    /\ UNCHANGED <<p_tab, q_pdf, c, tries, last_approved, rx, ru, rs_ret,
                   str_out, tries0, samples0, iters>>
    /\ UNCHANGED <<hmc_vars, is_vars, lf_vars, inst_vars, th_vars>>

\* sample: return x
S_Return ==
    /\ rs_pc = "s_ret"
    /\ rs_ret' = [op |-> "sample", fst |-> rx, snd |-> rx]
    /\ rs_pc' = "idle"
    /\ UNCHANGED <<p_tab, q_pdf, c, last_accepted, tries, samples,
                   last_approved, rx, ru, str_out, tries0, samples0, iters>>
    /\ UNCHANGED <<hmc_vars, is_vars, lf_vars, inst_vars, th_vars>>

\* the caller starts sample_all()
CallSampleAll ==
    /\ rs_pc = "idle"
    /\ tries < MaxTries
    /\ rs_pc' = "a_loop"
    /\ tries0' = tries
    /\ samples0' = samples
    /\ iters' = 0
    /\ UNCHANGED <<p_tab, q_pdf, c, last_accepted, tries, samples,
                   last_approved, rx, ru, rs_ret, str_out>>
    /\ UNCHANGED <<hmc_vars, is_vars, lf_vars, inst_vars, th_vars>>

\* sample_all: self.tries += 1
A_IncTries ==
    /\ rs_pc = "a_loop"
    /\ tries < MaxTries
    /\ tries' = tries + 1
    /\ iters' = iters + 1
    /\ rs_pc' = "a_drawx"
    /\ UNCHANGED <<p_tab, q_pdf, c, last_accepted, samples, last_approved, rx,
                   ru, rs_ret, str_out, tries0, samples0>>
    /\ UNCHANGED <<hmc_vars, is_vars, lf_vars, inst_vars, th_vars>>

\* sample_all: x = self.q.rvs()
A_DrawX ==
    /\ rs_pc = "a_drawx"
    /\ \E x \in XPoints : rx' = x
    /\ rs_pc' = "a_drawu"
    /\ UNCHANGED <<p_tab, q_pdf, c, last_accepted, tries, samples,
                   last_approved, ru, rs_ret, str_out, tries0, samples0,
                   iters>>
    /\ UNCHANGED <<hmc_vars, is_vars, lf_vars, inst_vars, th_vars>>

\* sample_all: u = np.random.uniform(low=0, high=self.c*self.q.pdf(x))
A_DrawU ==
    /\ rs_pc = "a_drawu"
    /\ \E u \in Uniform0(Scale(c, q_pdf[rx])) :
         IF u = Raise
         THEN /\ rs_pc' = "raised"
              /\ ru' = ru
         ELSE /\ rs_pc' = "a_test"
              /\ ru' = u
    /\ UNCHANGED <<p_tab, q_pdf, c, last_accepted, tries, samples,
                   last_approved, rx, rs_ret, str_out, tries0, samples0,
                   iters>>
    /\ UNCHANGED <<hmc_vars, is_vars, lf_vars, inst_vars, th_vars>>

\* sample_all: if u < self.p(x) ... else
A_Test ==
    /\ rs_pc = "a_test"
    /\ rs_pc' = IF Lt(ru, p_tab[rx]) THEN "a_acc" ELSE "a_rej"
    /\ UNCHANGED <<p_tab, q_pdf, c, last_accepted, tries, samples,
                   last_approved, rx, ru, rs_ret, str_out, tries0, samples0,
                   iters>>
    /\ UNCHANGED <<hmc_vars, is_vars, lf_vars, inst_vars, th_vars>>

\* sample_all: self.samples += 1
A_IncSamples ==
    /\ rs_pc = "a_acc"
    /\ samples' = samples + 1
    /\ last_accepted' = rx
    /\ rs_pc' = "a_set"
    /\ UNCHANGED <<p_tab, q_pdf, c, tries, last_approved, rx, ru, rs_ret,
                   str_out, tries0, samples0, iters>>
    /\ UNCHANGED <<hmc_vars, is_vars, lf_vars, inst_vars, th_vars>>

\* sample_all: self.last_approved = x
A_SetLast ==
    /\ rs_pc = "a_set"
    /\ last_approved' = rx
    /\ rs_pc' = "a_ret"
    /\ UNCHANGED <<p_tab, q_pdf, c, last_accepted, tries, samples, rx, ru,
                   rs_ret, str_out, tries0, samples0, iters>>
    /\ UNCHANGED <<hmc_vars, is_vars, lf_vars, inst_vars, th_vars>>

\* sample_all: return [x,x]
A_ReturnAcc ==
    /\ rs_pc = "a_ret"
    /\ rs_ret' = [op |-> "sample_all", fst |-> rx, snd |-> rx]
    /\ rs_pc' = "idle"
    /\ UNCHANGED <<p_tab, q_pdf, c, last_accepted, tries, samples,
                   last_approved, rx, ru, str_out, tries0, samples0, iters>>
    /\ UNCHANGED <<hmc_vars, is_vars, lf_vars, inst_vars, th_vars>>

\* sample_all: return [self.last_approved, x]
A_ReturnRej ==
    /\ rs_pc = "a_rej"
    /\ rs_ret' = [op |-> "sample_all", fst |-> last_approved, snd |-> rx]
    /\ rs_pc' = "idle"
    /\ UNCHANGED <<p_tab, q_pdf, c, last_accepted, tries, samples,
                   last_approved, rx, ru, str_out, tries0, samples0, iters>>
    /\ UNCHANGED <<hmc_vars, is_vars, lf_vars, inst_vars, th_vars>>

\* __str__: "Rejection sampling: %d tries for %d samples" % (self.tries, self.samples)
Str ==
    /\ rs_pc = "idle"
    /\ str_out' = <<tries, samples>>
    /\ UNCHANGED <<p_tab, q_pdf, c, last_accepted, tries, samples,
                   last_approved, rs_pc, rx, ru, rs_ret, tries0, samples0,
                   iters>>
    /\ UNCHANGED <<hmc_vars, is_vars, lf_vars, inst_vars, th_vars>>

NextRS ==
    \/ CallSample
    \/ S_IncTries
    \/ S_DrawX
    \/ S_DrawU
    \/ S_Test
    \/ S_IncSamples
    \/ S_Return
    \/ CallSampleAll
    \/ A_IncTries
    \/ A_DrawX
    \/ A_DrawU
    \/ A_Test
    \/ A_IncSamples
    \/ A_SetLast
    \/ A_ReturnAcc
    \/ A_ReturnRej
    \/ Str

\* ------------------------------------------ importance sampling, operations
\* Log densities are counted in units of ln 2, so that exp of k units is 2^k.
MaxSamples == 3
LogPValues == {NegInf, Fin(0), Fin(1)}
LogQValues == {Fin(-1), Fin(0)}

\* a - b on floats, b finite
Minus(a, b) == IF a.kind = "fin" THEN Fin(a.val - b.val) ELSE a

\* np.exp on a float that is -inf or a finite k >= 0
Exp(a) == IF a.kind = "fin" THEN 2 ^ a.val ELSE 0

\* n / d on non-negative floats: 0/0 is NaN, n/0 is +inf (numpy warns, and
\* raises nothing)
Quotient(n, d) ==
    IF d # 0 THEN [kind |-> "fin", num |-> n, den |-> d]
    ELSE IF n = 0 THEN [kind |-> "nan", num |-> 0, den |-> 0]
    ELSE [kind |-> "inf", num |-> 1, den |-> 0]

RECURSIVE SumW(_)
SumW(x) == IF x = <<>> THEN 0 ELSE x[1].w + SumW(Tail(x))

RECURSIVE SumW2(_)
SumW2(x) == IF x = <<>> THEN 0 ELSE x[1].w * x[1].w + SumW2(Tail(x))

\* a variant of ess that divides the sum of the squares by the sum
ess_sumsq(x) ==
    IF x = <<>> THEN [kind |-> "IndexError", num |-> 0, den |-> 0]
    ELSE Quotient(SumW2(x), SumW(x))

\* a variant of ess that does not square the sum
ess_nosquare(x) ==
    IF x = <<>> THEN [kind |-> "IndexError", num |-> 0, den |-> 0]
    ELSE Quotient(SumW(x), SumW2(x))

\* ess(x): w = np.array(x)[:,1]; return np.sum(w)**2/np.sum(w**2)
\* (an empty list has no column 1: IndexError)
ess(x) ==
    IF x = <<>> THEN [kind |-> "IndexError", num |-> 0, den |-> 0]
    ELSE Quotient(SumW(x) * SumW(x), SumW2(x))

\* ImportanceSampling.__init__(log_p, q)
ISInit ==
    /\ log_p \in [XPoints -> LogPValues]
    /\ q_logpdf \in [XPoints -> LogQValues]
    /\ is_ret = [x |-> <<0, 0>>, w |-> 0]
    /\ is_evals = <<>>
    /\ weighted = <<>>
    /\ ess_arg = <<>>
    /\ ess_out = [kind |-> "none", num |-> 0, den |-> 0]

\* a variant of IS_Sample that evaluates q.logpdf at a second draw
IS_Sample_redraw ==
    /\ Len(weighted) < MaxSamples
    /\ \E x \in XPoints, y \in XPoints :
         LET w == Exp(Minus(log_p[x], q_logpdf[y]))
         IN  /\ is_ret' = [x |-> x, w |-> w]
             /\ is_evals' = <<[f |-> "rvs", x |-> x], [f |-> "log_p", x |-> x],
                              [f |-> "logpdf", x |-> y]>>
             /\ weighted' = Append(weighted, [x |-> x, w |-> w])
    /\ UNCHANGED <<log_p, q_logpdf, ess_arg, ess_out>>
    /\ UNCHANGED <<rs_vars, hmc_vars, lf_vars, inst_vars, th_vars>>

\* ImportanceSampling.sample(), its result appended to the caller's list:
\*   x = self.q.rvs(); w = np.exp(self.log_p(x) - self.q.logpdf(x))
\*   return [x,w]
IS_Sample ==
    /\ Len(weighted) < MaxSamples
    /\ \E x \in XPoints :
         LET w == Exp(Minus(log_p[x], q_logpdf[x]))
         IN  /\ is_ret' = [x |-> x, w |-> w]
             /\ is_evals' = <<[f |-> "rvs", x |-> x], [f |-> "log_p", x |-> x],
                              [f |-> "logpdf", x |-> x]>>
             /\ weighted' = Append(weighted, [x |-> x, w |-> w])
    /\ UNCHANGED <<log_p, q_logpdf, ess_arg, ess_out>>
    /\ UNCHANGED <<rs_vars, hmc_vars, lf_vars, inst_vars, th_vars>>

\* ess(weighted)
Ess ==
    /\ ess_arg' = weighted
    /\ ess_out' = ess(weighted)
    /\ UNCHANGED <<log_p, q_logpdf, is_ret, is_evals, weighted>>
    /\ UNCHANGED <<rs_vars, hmc_vars, lf_vars, inst_vars, th_vars>>

NextIS ==
    \/ IS_Sample
    \/ Ess

\* ------------------------------------------ integrate_H, called on its own
\* A caller integrates a state forward the way HMC.sample does, with
\* T = Tau*dt, negates the momentum it got and integrates again.
MaxTau == 7
DtValues == {1, 5}
LFValues == {-5, 0, 2, 5, 14}
\* The energy x^2 is integrated with the step 1 only: with a larger step
\* the trajectory grows by a factor of dt^2 in every pass.
LFInputs ==
    {i \in [dE : GradFns, dt : DtValues, Tau : 0..MaxTau,
            x : LFValues, p : LFValues] : i.dE = "dE_dx" => i.dt = 1}

NoCall == [x |-> 1, p |-> 2, n |-> 0, exact |-> TRUE]

LFInit ==
    /\ \E i \in LFInputs :
         /\ lf_heap = <<i.x, i.p>>
         /\ lf_dE = i.dE
         /\ lf_Tau = i.Tau
         /\ lf_dt = i.dt
    /\ lf_pc = "start"
    /\ lf_fwd = NoCall
    /\ lf_neg = 2
    /\ lf_bwd = NoCall

\* xnew, pnew = integrate_H((x,p), dE_dx, Tau*dt, dt, 'leap_frog')
LF_Forward ==
    /\ lf_pc = "start"
    /\ LET r == integrate_H_2(lf_heap, 1, 2, lf_dE, Fl(lf_Tau * lf_dt), lf_dt,
                              "leap_frog")
       IN  /\ lf_heap' = r.heap
           /\ lf_fwd' = [x |-> r.x, p |-> r.p, n |-> r.n, exact |-> r.exact]
    /\ lf_pc' = "forward"
    /\ UNCHANGED <<lf_dE, lf_Tau, lf_dt, lf_neg, lf_bwd>>
    /\ UNCHANGED <<rs_vars, hmc_vars, is_vars, inst_vars, th_vars>>

\* -pnew
LF_Negate ==
    /\ lf_pc = "forward"
    /\ lf_heap' = Append(lf_heap, -lf_heap[lf_fwd.p])
    /\ lf_neg' = Len(lf_heap) + 1
    /\ lf_pc' = "negated"
    /\ UNCHANGED <<lf_dE, lf_Tau, lf_dt, lf_fwd, lf_bwd>>
    /\ UNCHANGED <<rs_vars, hmc_vars, is_vars, inst_vars, th_vars>>

\* integrate_H((xnew,-pnew), dE_dx, Tau*dt, dt, 'leap_frog')
LF_Backward ==
    /\ lf_pc = "negated"
    /\ LET r == integrate_H_2(lf_heap, lf_fwd.x, lf_neg, lf_dE,
                              Fl(lf_Tau * lf_dt), lf_dt, "leap_frog")
       IN  /\ lf_heap' = r.heap
           /\ lf_bwd' = [x |-> r.x, p |-> r.p, n |-> r.n, exact |-> r.exact]
    /\ lf_pc' = "back"
    /\ UNCHANGED <<lf_dE, lf_Tau, lf_dt, lf_fwd, lf_neg>>
    /\ UNCHANGED <<rs_vars, hmc_vars, is_vars, inst_vars, th_vars>>

NextLF ==
    \/ LF_Forward
    \/ LF_Negate
    \/ LF_Backward

\* ------------------------------------- two callers of one RejectionSampling
Threads == {1, 2}
InCall(i) == t_pc[i] \notin {"idle", "done", "raised"}

\* what a thread step leaves alone in the instance and elsewhere
ThFrame ==
    /\ UNCHANGED <<p_tab, q_pdf, c, last_approved, last_accepted, rs_pc, rx, ru,
                   rs_ret, str_out, tries0, samples0, iters>>
    /\ UNCHANGED <<hmc_vars, is_vars, lf_vars, inst_vars>>

ThInit ==
    /\ t_pc = [i \in Threads |-> "idle"]
    /\ t_x = [i \in Threads |-> <<0, 0>>]
    /\ t_u = [i \in Threads |-> Fin(0)]
    /\ t_reg = [i \in Threads |-> 0]
    /\ t_iters = 0
    /\ t_accepted = 0
    /\ t_overlap = FALSE

\* thread i calls sample()
T_Call(i) ==
    /\ t_pc[i] = "idle"
    /\ t_pc' = [t_pc EXCEPT ![i] = "read_tries"]
    /\ t_overlap' = (t_overlap \/ \E j \in Threads \ {i} : InCall(j))
    /\ UNCHANGED <<tries, samples, t_x, t_u, t_reg, t_iters, t_accepted>>
    /\ ThFrame

\* while True: self.tries += 1, the read
T_ReadTries(i) ==
    /\ t_pc[i] = "read_tries"
    /\ t_iters < MaxTries
    /\ t_reg' = [t_reg EXCEPT ![i] = tries]
    /\ t_iters' = t_iters + 1
    /\ t_pc' = [t_pc EXCEPT ![i] = "write_tries"]
    /\ UNCHANGED <<tries, samples, t_x, t_u, t_accepted, t_overlap>>
    /\ ThFrame

\* a variant of T_WriteTries that writes back the value read
T_WriteTries_stale(i) ==
    /\ t_pc[i] = "write_tries"
    /\ tries' = t_reg[i]
    /\ t_pc' = [t_pc EXCEPT ![i] = "drawx"]
    /\ UNCHANGED <<samples, t_x, t_u, t_reg, t_iters, t_accepted, t_overlap>>
    /\ ThFrame

\* self.tries += 1, the write
T_WriteTries(i) ==
    /\ t_pc[i] = "write_tries"
    /\ tries' = t_reg[i] + 1
    /\ t_pc' = [t_pc EXCEPT ![i] = "drawx"]
    /\ UNCHANGED <<samples, t_x, t_u, t_reg, t_iters, t_accepted, t_overlap>>
    /\ ThFrame

\* x = self.q.rvs()
T_DrawX(i) ==
    /\ t_pc[i] = "drawx"
    /\ \E x \in XPoints : t_x' = [t_x EXCEPT ![i] = x]
    /\ t_pc' = [t_pc EXCEPT ![i] = "drawu"]
    /\ UNCHANGED <<tries, samples, t_u, t_reg, t_iters, t_accepted, t_overlap>>
    /\ ThFrame

\* u = np.random.uniform(low=0, high=self.c*self.q.pdf(x))
T_DrawU(i) ==
    /\ t_pc[i] = "drawu"
    /\ \E u \in Uniform0(Scale(c, q_pdf[t_x[i]])) :
         IF u = Raise
         THEN /\ t_pc' = [t_pc EXCEPT ![i] = "raised"]
              /\ t_u' = t_u
         ELSE /\ t_pc' = [t_pc EXCEPT ![i] = "test"]
              /\ t_u' = [t_u EXCEPT ![i] = u]
    /\ UNCHANGED <<tries, samples, t_x, t_reg, t_iters, t_accepted, t_overlap>>
    /\ ThFrame

\* if u < self.p(x)
T_Test(i) ==
    /\ t_pc[i] = "test"
    /\ IF Lt(t_u[i], p_tab[t_x[i]])
       THEN /\ t_pc' = [t_pc EXCEPT ![i] = "read_samples"]
            /\ t_accepted' = t_accepted + 1
       ELSE /\ t_pc' = [t_pc EXCEPT ![i] = "read_tries"]
            /\ UNCHANGED t_accepted
    /\ UNCHANGED <<tries, samples, t_x, t_u, t_reg, t_iters, t_overlap>>
    /\ ThFrame

\* self.samples += 1, the read
T_ReadSamples(i) ==
    /\ t_pc[i] = "read_samples"
    /\ t_reg' = [t_reg EXCEPT ![i] = samples]
    /\ t_pc' = [t_pc EXCEPT ![i] = "write_samples"]
    /\ UNCHANGED <<tries, samples, t_x, t_u, t_iters, t_accepted, t_overlap>>
    /\ ThFrame

\* self.samples += 1, the write
T_WriteSamples(i) ==
    /\ t_pc[i] = "write_samples"
    /\ samples' = t_reg[i] + 1
    /\ t_pc' = [t_pc EXCEPT ![i] = "return"]
    /\ UNCHANGED <<tries, t_x, t_u, t_reg, t_iters, t_accepted, t_overlap>>
    /\ ThFrame

\* return x
T_Return(i) ==
    /\ t_pc[i] = "return"
    /\ t_pc' = [t_pc EXCEPT ![i] = "done"]
    /\ UNCHANGED <<tries, samples, t_x, t_u, t_reg, t_iters, t_accepted,
                   t_overlap>>
    /\ ThFrame

NextTh ==
    \E i \in Threads :
        \/ T_Call(i)
        \/ T_ReadTries(i)
        \/ T_WriteTries(i)
        \/ T_DrawX(i)
        \/ T_DrawU(i)
        \/ T_Test(i)
        \/ T_ReadSamples(i)
        \/ T_WriteSamples(i)
        \/ T_Return(i)

\* ---------------------------------------------------------- specifications
\* Each specification runs one component; the other two stay as constructed
\* from one fixed set of arguments.
RSQuiet ==
    /\ RSInit
    /\ p_tab = [x \in XPoints |-> Fin(1)]
    /\ q_pdf = [x \in XPoints |-> Fin(1)]
    /\ c = 1
HMCQuiet ==
    /\ HMCInit
    /\ heap[1] = 0
    /\ Tau = 1
ISQuiet ==
    /\ ISInit
    /\ log_p = [x \in XPoints |-> Fin(0)]
    /\ q_logpdf = [x \in XPoints |-> Fin(0)]

LFQuiet ==
    /\ LFInit
    /\ lf_heap = <<0, 2>>
    /\ lf_dE = "dE_dx"
    /\ lf_Tau = 1
    /\ lf_dt = 1

\* RejectionSampling.__init__ and HMC.__init__ of the second instances
InstInit ==
    /\ other_rs = [tries |-> 0, samples |-> 0, last_approved |-> <<0, 0>>]
    /\ other_hmc_x = 1

InitRS == RSInit /\ HMCQuiet /\ ISQuiet /\ LFQuiet /\ InstInit /\ ThInit
InitHMC == HMCInit /\ RSQuiet /\ ISQuiet /\ LFQuiet /\ InstInit /\ ThInit
InitIS == ISInit /\ RSQuiet /\ HMCQuiet /\ LFQuiet /\ InstInit /\ ThInit
InitLF == LFInit /\ RSQuiet /\ HMCQuiet /\ ISQuiet /\ InstInit /\ ThInit

SpecRS == InitRS /\ [][NextRS]_vars
SpecHMC == InitHMC /\ [][NextHMC]_vars
SpecIS == InitIS /\ [][NextIS]_vars
SpecLF == InitLF /\ [][NextLF]_vars

\* One sampler is driven, a RejectionSampling or an HMC instance, next to the
\* second instances, on which no call is made; the sampler of the other
\* class stays as constructed.
InitInst == InitRS \/ InitHMC
NextInst ==
    \/ HMCQuiet /\ NextRS
    \/ RSQuiet /\ NextHMC
SpecInst == InitInst /\ [][NextInst]_vars

\* sample() alone, on finite densities, with the counters counted up to
\* MaxTries: the value MaxTries of tries stands for "MaxTries or more", so
\* that the loop can be followed through any number of iterations.
RSInitFinite ==
    /\ RSInit
    /\ \A x \in XPoints : IsFinite(p_tab[x]) /\ IsFinite(q_pdf[x])

InitRSLoop ==
    RSInitFinite /\ HMCQuiet /\ ISQuiet /\ LFQuiet /\ InstInit /\ ThInit

\* two threads on one instance with finite densities
InitTh ==
    RSInitFinite /\ HMCQuiet /\ ISQuiet /\ LFQuiet /\ InstInit /\ ThInit
SpecTh == InitTh /\ [][NextTh]_vars

\* sample: self.tries += 1, counted up to MaxTries
S_IncTriesCounted ==
    /\ rs_pc = "s_loop"
    /\ tries' = IF tries < MaxTries THEN tries + 1 ELSE tries
    /\ iters' = IF iters < MaxTries THEN iters + 1 ELSE iters
    /\ rs_pc' = "s_drawx"
    /\ UNCHANGED <<p_tab, q_pdf, c, last_accepted, samples, last_approved, rx,
                   ru, rs_ret, str_out, tries0, samples0>>
    /\ UNCHANGED <<hmc_vars, is_vars, lf_vars, inst_vars, th_vars>>

NextRSLoop ==
    \/ CallSample
    \/ S_IncTriesCounted
    \/ S_DrawX
    \/ S_DrawU
    \/ S_Test
    \/ S_IncSamples
    \/ S_Return

\* the uniform source can produce a u below p(x) at the point x
CanAccept(x) ==
    \E u \in Uniform0(Scale(c, q_pdf[x])) : u # Raise /\ Lt(u, p_tab[x])

\* The interpreter keeps running the call, and the random source is fair:
\* a point at which a draw can be accepted is not passed over for ever by
\* q.rvs(), nor is a value of u below p(x) by the uniform source.
FairSpecRS ==
    /\ InitRSLoop
    /\ [][NextRSLoop]_vars
    /\ WF_vars(S_IncTriesCounted \/ S_DrawX \/ S_DrawU \/ S_Test \/ S_IncSamples
                   \/ S_Return)
    /\ SF_vars(S_DrawX /\ CanAccept(rx'))
    /\ SF_vars(S_DrawU /\ Lt(ru', p_tab[rx]))

\* ------------------------------------------ properties, rejection sampling
\* C1: in every reachable state of a sampler used by one caller, the states
\* inside the accept/reject loop included, tries >= samples.
C1_TriesGeSamples == tries >= samples

\* a state inside the loop of a later call: a draw has been accepted and
\* counted, and the counters are equal
C1_Witness ==
    /\ rs_pc \in {"s_ret", "a_set"}
    /\ samples >= 2
    /\ tries = samples

\* C2: a sample() call that has returned has increased samples by exactly 1
\* and tries by exactly the number of loop iterations it ran, at least 1.
C2_SampleCounts ==
    (rs_pc = "idle" /\ rs_ret.op = "sample") =>
        /\ samples = samples0 + 1
        /\ tries = tries0 + iters
        /\ iters >= 1

\* a sample() call has returned after two rejected iterations
C2_Witness ==
    /\ rs_pc = "idle"
    /\ rs_ret.op = "sample"
    /\ iters >= 3
    /\ samples = samples0 + 1

\* C3: no step of sample, sample_all or __str__ makes tries or samples
\* smaller.
C3_Monotone == [][tries' >= tries /\ samples' >= samples]_vars

\* both counters have grown, through sample() and sample_all(), and __str__
\* has been called since
C3_Witness ==
    /\ tries >= 3
    /\ samples >= 1
    /\ tries > samples
    /\ str_out = <<tries, samples>>
    /\ rs_ret.op = "sample_all"

\* some draw (x, u) the proposal and the uniform source can produce passes
\* the accept test
AcceptPossible == \E x \in XPoints : CanAccept(x)
InSample == rs_pc \in {"s_loop", "s_drawx", "s_drawu", "s_test", "s_acc", "s_ret"}

\* C7: sample() leaves its loop only through an accepted draw; where an
\* accepting draw is possible and the random choices are fair, a running call
\* eventually returns; where none is possible, the call never returns and
\* tries grows past every value counted.
C7_ReturnsIffAcceptable ==
    /\ [][(InSample /\ rs_pc' = "idle")
            => (rs_pc = "s_ret" /\ Lt(ru, p_tab[rx]))]_vars
    /\ ((InSample /\ AcceptPossible) ~> (rs_pc = "idle"))
    /\ [][(InSample /\ ~AcceptPossible) => InSample']_vars
    /\ ((InSample /\ ~AcceptPossible) ~> (tries = MaxTries))

\* a call has returned although the counter had already passed MaxTries
\* iterations
C7_Witness ==
    /\ rs_pc = "idle"
    /\ rs_ret.op = "sample"
    /\ tries = MaxTries
    /\ tries0 = 0
    /\ iters = MaxTries
    /\ p_tab[rx] = Fin(1)
    /\ Scale(c, q_pdf[rx]) = Fin(2 * MaxDensity)

\* C8 as stated: an iteration of sample() in which p(x) or q.pdf(x) is not
\* finite fails the accept test: the loop goes on, samples and the returned
\* value stay as they are.
C8_NonFiniteRejected ==
    [][(rs_pc = "s_test" /\ (~IsFinite(p_tab[rx]) \/ ~IsFinite(q_pdf[rx])))
       => /\ rs_pc' = "s_loop"
          /\ samples' = samples
          /\ rs_ret' = rs_ret]_vars

\* C8, amended: an iteration of sample() in which p(x) is NaN or -inf fails
\* the accept test whatever u is: tries has been incremented for it, samples
\* and the returned value stay as they are, and the loop goes on.
C8_NaNOrNegInfRejected ==
    [][(rs_pc = "s_test" /\ p_tab[rx] \in {NaN, NegInf})
       => /\ rs_pc' = "s_loop"
          /\ tries = tries0 + iters
          /\ tries' = tries
          /\ samples' = samples
          /\ samples = samples0
          /\ rs_ret' = rs_ret]_vars

\* back at the head of the loop after an iteration whose p(x) was NaN or -inf
C8_Witness ==
    /\ rs_pc = "s_loop"
    /\ iters >= 1
    /\ p_tab[rx] \in {NaN, NegInf}
    /\ tries = tries0 + iters
    /\ samples = samples0

\* --------------------------------------------------------- properties, HMC
\* C4: the chain position changes only in the commit of a passed Metropolis
\* test: no other step writes self.x or the array it names, and a call whose
\* test log(u) < H - Hnew is false leaves the position at its value from
\* before the call, although the integration ran on it.
C4_PositionOnlyOnAccept ==
    [][/\ (hmc_x' # hmc_x \/ heap'[hmc_x'] # heap[hmc_x])
            => (hmc_pc = "metropolis" /\ Lt(hlogu', Fin(hH - hHnew)))
       /\ (hmc_pc = "metropolis" /\ ~Lt(hlogu', Fin(hH - hHnew)))
            => (hmc_x' = hmc_x /\ heap'[hmc_x'] = x_before)]_vars

\* a later call was rejected after the integration had moved the proposal
\* away from the position
C4_Witness ==
    /\ hmc_pc = "return"
    /\ Len(hmc_out) >= 2
    /\ ~Lt(hlogu, Fin(hH - hHnew))
    /\ heap[hxnew] # x_before
    /\ heap[hmc_x] = x_before

\* C5: H is E(x) + p.p/2 at the start state and Hnew the same at the
\* integrated state; xnew is committed iff log(u) < H - Hnew, strictly; and
\* the call returns the position stored after it.
C5_CommitIffTest ==
    /\ hmc_pc = "return" =>
         /\ hH = E(x_before) + (p_drawn * p_drawn) \div 2
         /\ hHnew = E(heap[hxnew]) + (heap[hpnew] * heap[hpnew]) \div 2
         /\ (hmc_x = hxnew) <=> Lt(hlogu, Fin(hH - hHnew))
         /\ heap[hmc_x] = IF Lt(hlogu, Fin(hH - hHnew)) THEN heap[hxnew]
                          ELSE x_before
    /\ (hmc_pc = "idle" /\ Len(hmc_out) >= 2) =>
         /\ hmc_out[Len(hmc_out)].x = hmc_x
         /\ hmc_out[Len(hmc_out)].val = heap[hmc_x]

\* log(u) equals H - Hnew and the proposal, a different point, is not taken
C5_Witness ==
    /\ hmc_pc = "return"
    /\ hlogu = Fin(hH - hHnew)
    /\ hmc_x # hxnew
    /\ heap[hxnew] # heap[hmc_x]

\* C6: a point handed over keeps its value: x0 and every sample returned by
\* an earlier sample() call, and the arrays of the xp argument of every
\* integrate_H call, with 'euler' as with 'leap_frog'.
C6_SamplesImmutable ==
    /\ \A i \in 1..Len(hmc_out) : heap[hmc_out[i].x] = hmc_out[i].val
    /\ \A i \in 1..Len(traj_euler) :
         /\ heap[traj_euler[i].x] = traj_euler[i].xval
         /\ heap[traj_euler[i].p] = traj_euler[i].pval
    /\ \A i \in 1..Len(traj_leap_frog) :
         /\ heap[traj_leap_frog[i].x] = traj_leap_frog[i].xval
         /\ heap[traj_leap_frog[i].p] = traj_leap_frog[i].pval

\* --------------------------------------------------------- properties, ess
EssCalled == ess_out.kind # "none" /\ Len(ess_arg) >= 1
SomeWeightPositive == \E i \in 1..Len(ess_arg) : ess_arg[i].w > 0
SameWeights == \A i \in 1..Len(ess_arg) : ess_arg[i].w = ess_arg[1].w

\* C9 as stated: for every list of N >= 1 samples with non-negative weights
\* ess is defined and lies in (0, N]: the denominator is not zero,
\* 0 < (sum w)^2 and (sum w)^2 <= N * (sum w^2).
C9_EssInRange ==
    EssCalled =>
        /\ ess_out.kind = "fin"
        /\ ess_out.den # 0
        /\ 0 < ess_out.num
        /\ ess_out.num <= Len(ess_arg) * ess_out.den

\* C9, amended: the same for every list of N >= 1 samples with non-negative
\* weights of which at least one is positive.
C9_EssInRangeSomePositive ==
    (EssCalled /\ SomeWeightPositive) =>
        /\ ess_out.kind = "fin"
        /\ ess_out.den # 0
        /\ 0 < ess_out.num
        /\ ess_out.num <= Len(ess_arg) * ess_out.den

\* ess of a full list that holds a zero weight next to a positive one lies
\* strictly inside (0, N)
C9_Witness ==
    /\ EssCalled
    /\ Len(ess_arg) = MaxSamples
    /\ \E i \in 1..Len(ess_arg) : ess_arg[i].w = 0
    /\ SomeWeightPositive
    /\ ess_out.kind = "fin"
    /\ 0 < ess_out.num
    /\ ess_out.num < Len(ess_arg) * ess_out.den

\* C10 as stated: for N >= 1 samples that all carry the same weight w, ess
\* is exactly N.
C10_EqualWeights ==
    (EssCalled /\ SameWeights) =>
        /\ ess_out.kind = "fin"
        /\ ess_out.num = Len(ess_arg) * ess_out.den

\* C10, amended: for N >= 1 samples that all carry the same weight w > 0,
\* ess is exactly N.
C10_EqualPositiveWeights ==
    (EssCalled /\ SameWeights /\ ess_arg[1].w > 0) =>
        /\ ess_out.kind = "fin"
        /\ ess_out.num = Len(ess_arg) * ess_out.den

\* ess of a full list of samples of weight 2, drawn at different points
C10_Witness ==
    /\ EssCalled
    /\ SameWeights
    /\ ess_arg[1].w = 2
    /\ Len(ess_arg) = MaxSamples
    /\ \E i \in 1..Len(ess_arg) : ess_arg[i].x # ess_arg[1].x
    /\ ess_out.kind = "fin"
    /\ ess_out.num = Len(ess_arg) * ess_out.den

\* ------------------------------------------------- properties, integrate_H
LFStart == <<lf_heap[1], lf_heap[2]>>

C14_ExactlyTauPasses == lf_pc # "start" => lf_fwd.n = lf_Tau

\* C15: one leap-frog pass makes a half step of the momentum with the
\* gradient at the old position, a full step of the position with the
\* half-updated momentum, and a second half step of the momentum with the
\* gradient at the new position.
C15_LeapFrogOrder ==
    (lf_pc # "start" /\ lf_fwd.n = 1) =>
        LET x == LFStart[1]
            p == LFStart[2]
            p1 == Fl(p - (Fl(Grad(lf_dE, x) * lf_dt) \div 2))
            x1 == Fl(x + Fl(lf_dt * p1))
            p2 == Fl(p1 - (Fl(Grad(lf_dE, x1) * lf_dt) \div 2))
        IN  /\ lf_heap[lf_fwd.x] = x1
            /\ lf_heap[lf_fwd.p] = p2

\* a single pass in which the gradient changes between the two half steps
\* and the half-updated momentum differs from the momentum
C15_Witness ==
    /\ lf_pc = "forward"
    /\ lf_fwd.n = 1
    /\ Grad(lf_dE, lf_heap[lf_fwd.x]) # Grad(lf_dE, LFStart[1])
    /\ Grad(lf_dE, LFStart[1]) # 0
    /\ LFStart[2] # 0
    /\ lf_heap[lf_fwd.x] # LFStart[1] + lf_dt * LFStart[2]

\* ----------------------------------------- properties, importance sampling
EvalsOf(f) == {k \in 1..Len(is_evals) : is_evals[k].f = f}

\* C12: every ImportanceSampling.sample() call draws one point x, evaluates
\* log_p and q.logpdf once each at that x, hands [x, w] with
\* w = exp(log_p(x) - q.logpdf(x)) to the caller (no draw is rejected) and
\* changes no field of the sampler.
C12_SampleNeverRejects ==
    /\ [][log_p' = log_p /\ q_logpdf' = q_logpdf]_vars
    /\ [][is_evals' # is_evals \/ is_ret' # is_ret \/ weighted' # weighted =>
            /\ weighted' = Append(weighted, is_ret')
            /\ Cardinality(EvalsOf("rvs")') = 1
            /\ Cardinality(EvalsOf("log_p")') = 1
            /\ Cardinality(EvalsOf("logpdf")') = 1
            /\ \A k \in 1..Len(is_evals') : is_evals'[k].x = is_ret'.x
            /\ is_ret'.w = IF log_p[is_ret'.x] = NegInf THEN 0
                           ELSE 2 ^ (log_p[is_ret'.x].val
                                        - q_logpdf[is_ret'.x].val)]_vars

\* calls at both points, the two with different weights, one of them
\* neither 0 nor 1
C12_Witness ==
    /\ Len(weighted) = MaxSamples
    /\ is_ret = weighted[MaxSamples]
    /\ is_ret.w > 1
    /\ \E k \in 1..Len(weighted) :
         weighted[k].x # is_ret.x /\ weighted[k].w # is_ret.w
    /\ q_logpdf[<<0, 0>>] # q_logpdf[<<1, 0>>]

\* ------------------------------------------------ properties, two instances
\* C13: no step of a sample() or sample_all() call on one instance changes
\* tries, samples or last_approved of another RejectionSampling instance, or
\* the chain position of another HMC instance: neither the array it names
\* nor the content of that array, which the driven HMC instance was
\* constructed from as well.
C13_NoSharedState ==
    [][/\ other_rs' = other_rs
       /\ other_hmc_x' = other_hmc_x
       /\ heap'[other_hmc_x'] = heap[other_hmc_x]]_vars

\* the driven HMC instance has accepted a proposal and moved away from the
\* array it shared with the second instance
C13_Witness ==
    /\ Len(hmc_out) >= 2
    /\ hmc_pc = "idle"
    /\ hmc_out[1].x = other_hmc_x
    /\ hmc_x # other_hmc_x
    /\ heap[hmc_x] # heap[other_hmc_x]

\* ------------------------------------------------- properties, sample_all
\* C16: a sample_all() call makes one try; when its draw is rejected it
\* returns [the point most recently accepted by sample or sample_all, or
\* [0,0] if there is none yet; the point just rejected], and when its draw
\* is accepted it returns [x, x].
C16_SampleAllReturns ==
    [][(rs_pc \in {"a_rej", "a_ret"} /\ rs_pc' = "idle") =>
          /\ iters = 1
          /\ tries = tries0 + 1
          /\ rs_pc = "a_ret" =>
                rs_ret' = [op |-> "sample_all", fst |-> rx, snd |-> rx]
          /\ rs_pc = "a_rej" =>
                rs_ret' = [op |-> "sample_all", fst |-> last_accepted,
                           snd |-> rx]]_vars

\* --------------------------------------------------- properties, two callers
Quiescent == \A i \in Threads : ~InCall(i)

\* C17: the counters never count more than was done, and when the calls of
\* the two threads do not overlap no increment is lost: once no call is in
\* progress tries is the number of loop iterations and samples the number of
\* accepted draws.  (With overlapping calls an increment can be lost: the
\* state below is reached.)
C17_SerializedNothingLost ==
    /\ tries <= t_iters
    /\ samples <= t_accepted
    /\ (Quiescent /\ ~t_overlap) => (tries = t_iters /\ samples = t_accepted)

\* both calls have returned, an increment of tries was lost and tries has
\* fallen below samples
C17_Witness ==
    /\ \A i \in Threads : t_pc[i] = "done"
    /\ t_overlap
    /\ tries < t_iters
    /\ tries < samples

\* ------------------------------------- properties, the envelope condition
\* the envelope condition fails at the point drawn: c*q.pdf(x) < p(x), with
\* q.pdf(x) a density value
EnvelopeViolated ==
    IsFinite(q_pdf[rx]) /\ Lt(Scale(c, q_pdf[rx]), p_tab[rx])

\* C18: in sample(), a draw x with c*q.pdf(x) < p(x) is accepted whatever u
\* is drawn; drawing u raises nothing, the test passes, samples is
\* incremented and x is returned.  Nothing tells the call apart from one
\* with the envelope condition satisfied.
C18_ViolationUndetected ==
    /\ [][(EnvelopeViolated /\ rs_pc = "s_drawu") => rs_pc' = "s_test"]_vars
    /\ [][(EnvelopeViolated /\ rs_pc = "s_test") => rs_pc' = "s_acc"]_vars
    /\ [][(EnvelopeViolated /\ rs_pc = "s_acc") =>
             (rs_pc' = "s_ret" /\ samples' = samples + 1)]_vars
    /\ [][(EnvelopeViolated /\ rs_pc = "s_ret") =>
             (rs_pc' = "idle" /\ rs_ret'.op = "sample" /\ rs_ret'.fst = rx)]_vars

\* a point with 0 < c*q(x) < p(x), p(x) finite, is about to be returned
C18_Witness ==
    /\ rs_pc = "s_ret"
    /\ EnvelopeViolated
    /\ IsFinite(p_tab[rx])
    /\ Lt(Fin(0), Scale(c, q_pdf[rx]))

\* C19: in sample(), a draw x with p(x) = 0 is rejected whatever u is, and
\* the point of an accepted draw has p(x) > 0, with 0 <= u < p(x) for the u
\* of its iteration.
C19_NoZeroDensityPoint ==
    /\ [][(rs_pc = "s_test" /\ p_tab[rx] = Fin(0)) => rs_pc' = "s_loop"]_vars
    /\ [][(rs_pc \in {"s_acc", "s_ret"} \/ rs_pc' \in {"s_acc", "s_ret"}) =>
            /\ Lt(Fin(0), p_tab[rx'])
            /\ ~Lt(ru', Fin(0))
            /\ Lt(ru', p_tab[rx'])]_vars
    /\ [][(rs_pc = "s_ret" /\ rs_pc' = "idle") =>
             Lt(Fin(0), p_tab[rs_ret'.fst])]_vars

\* a draw at a point of zero density has just been rejected with u = 0
C19_Witness ==
    /\ rs_pc = "s_loop"
    /\ iters >= 1
    /\ p_tab[rx] = Fin(0)
    /\ ru = Fin(0)
    /\ Lt(Fin(0), Scale(c, q_pdf[rx]))

====
